---- MODULE Spec2Model ----
(***************************************************************************)
(* reASHA: automatic reconnection of ASHA Bluetooth devices (src/main.rs). *)
(*                                                                         *)
(* The process has two concurrency domains:                                *)
(*   - the OS thread running monitor_playback, the only writer of the      *)
(*     shared AtomicBool shared_play_state;                                *)
(*   - the tokio current_thread runtime running main, whose epoch loop     *)
(*     awaits for_each_concurrent over the discovery stream; every event   *)
(*     handler (handle_device_added / handle_device_removed) is a future   *)
(*     owned by that combinator and suspended at its await points.         *)
(* Every await point of the source is a position (pc) of the model; the    *)
(* reply of the external D-Bus call (its failure, the UUID list or the     *)
(* name BlueZ knows at that time) is drawn nondeterministically.           *)
(***************************************************************************)
EXTENDS Integers, Sequences, FiniteSets, TLC

\* ---------------------------------------------------------------- constants
ASHA_SERVICE_U16 == 65008

LongBackoff == 60

ShortBackoff == 5

\* ------------------------------------------------------------------- bounds
\* handler futures simultaneously owned by for_each_concurrent (usize::MAX in
\* the source)
MaxTasks == 2

\* saturation of the count of consecutive failed epochs
MaxFails == 3

\* ------------------------------------------------------------ input domains
Addr == {"A", "B"}

\* UUID lists a device advertises: the ASHA service, the battery service
UuidLists == {{ASHA_SERVICE_U16}, {6159}}

\* the two devices in range: A is named "SONNET 2", B is another hearing aid
NameOf(a) == IF a = "A" THEN "SONNET 2" ELSE "HearAid1"

\* positions in the list of handler futures
Slots == 1..MaxTasks

SetupSteps == {"session", "adapter", "power_read", "power_off", "filter", "discover"}

PlayerReports == {"no_player", "status_err", "Playing", "Paused", "Stopped"}

VARIABLES
    mainPc,        \* position of main's epoch loop
    failedStep,    \* setup step whose else-branch main is sleeping in
    backoff,       \* seconds of the sleep main is in (0 when not sleeping)
    fails,         \* consecutive failed epochs, saturating at MaxFails
    streamOpen,    \* the discovery stream of this epoch has not ended
    is_powered,    \* main's local is_powered (FALSE while it is not bound)
    dropped,       \* the last future left the list when a DeviceAdded was
                   \* dropped at the device resolution or at the UUID read,
                   \* and the stream has yielded no event since
    tasks,         \* list of the handler futures for_each_concurrent owns
    devConnected,  \* link state of each device, as BlueZ holds it
    devTrusted,    \* trust flag of each device, as BlueZ holds it
    playing,       \* shared_play_state
    monPc,         \* position of the monitor_playback thread
    observed,      \* what the last iteration of monitor_playback got from
                   \* the media interface ("none" before the first one)
    faulty,        \* calls to BlueZ devices and to the media interface may
                   \* fail in this run
    follow         \* this run marks handler futures, one at a time, to tell
                   \* one future from the others of the list

vars == <<mainPc, failedStep, backoff, fails, streamOpen, is_powered, dropped,
          tasks, devConnected, devTrusted, playing, monPc, observed, faulty,
          follow>>

mainVars == <<mainPc, failedStep, backoff, fails, streamOpen, is_powered>>

devConst == <<faulty, follow>>

\* ------------------------------------------------------------ task records
\* the locals of a handler future before any of them is assigned (followed
\* is no local: it is the mark of the future, gone once the event is handled)
NoLocals ==
    [pc |-> "none", addr |-> "A", uuids |-> "unread", has_asha |-> FALSE,
     connected |-> FALSE,
     trusted |-> FALSE, p1 |-> FALSE, p2 |-> FALSE, issued |-> <<>>,
     skipped |-> FALSE, failed |-> FALSE, followed |-> FALSE]

\* a completed future is unlinked from the list
RemoveAt(seq, i) ==
    [j \in 1..(Len(seq) - 1) |-> IF j < i THEN seq[j] ELSE seq[j + 1]]

\* positions of a handler future outside the polling loop
HandlerPcs == {"added", "uuids", "name", "removed", "rm_name"}

LoopPcs == {"sleep", "is_connected", "is_trusted", "load2",
            "set_trusted", "connect_profile", "disconnect"}

IsSupervisor(t) == tasks[t].pc \in LoopPcs

Supervisors(a) == {t \in DOMAIN tasks : IsSupervisor(t) /\ tasks[t].addr = a}

Idle == tasks = <<>>

HasRoom == Len(tasks) < MaxTasks

\* whether a call to a device, or PlayerFinder::new(), succeeds
Outcomes == IF faulty THEN {TRUE, FALSE} ELSE {TRUE}

\* replies of device.uuids(): Err, Ok(None), Ok(Some(uuid_list))
UuidReplies ==
    {[kind |-> k, uuid_list |-> {}] :
        k \in IF faulty THEN {"err", "absent"} ELSE {}}
        \cup {[kind |-> "some", uuid_list |-> l] : l \in UuidLists}

\* what an iteration of monitor_playback can get from the media interface
Reports ==
    IF faulty THEN PlayerReports ELSE {"Playing", "Paused", "Stopped"}

\* ------------------------------------------------------- pure computations
\* uuid_list.iter().any(|uuid| uuid.as_u16() == Some(ASHA_SERVICE_U16))
ServiceMatch(uuid_list) == \E uuid \in uuid_list : uuid = ASHA_SERVICE_U16

\* device.name().await.ok().flatten().unwrap_or_else(|| "Unknown")
NameOrUnknown(ok, name) == IF ok THEN name ELSE "Unknown"

\* the test that guards the polling loop: the has_asha return is commented
\* out, the name comparison is what returns
EntersLoop(has_asha, device_name) == device_name = "SONNET 2"

\* (mutant) the session-open branch sleeps seconds instead of a minute
BackoffSecs_SessionShort(step) ==
    IF step = "discover" THEN LongBackoff ELSE ShortBackoff

\* the sleep of each else-branch of the epoch loop
BackoffSecs(step) ==
    CASE step = "session"    -> LongBackoff
      [] step = "adapter"    -> ShortBackoff
      [] step = "power_read" -> ShortBackoff
      [] step = "power_off"  -> ShortBackoff
      [] step = "filter"     -> ShortBackoff
      [] step = "discover"   -> LongBackoff

\* (mutant) the session-open failure ends the process instead of retrying
AfterFailure_SessionExits(step) ==
    IF step = "session" THEN "exit" ELSE "backoff"

\* every else-branch sleeps and continues the loop
AfterFailure(step) == "backoff"

\* (mutant) the signal starts true
InitialSignal_True == TRUE

\* Arc::new(AtomicBool::new(false))
InitialSignal == FALSE

\* (mutant) a paused player counts as playing
PlaybackStore_PausedCounts(report) == report \in {"Playing", "Paused"}

\* what monitor_playback stores after one tick
PlaybackStore(report) == report = "Playing"

\* (mutant) a powered-off adapter passes the power check
AfterPowerRead_OffPasses(reply) ==
    CASE reply = "err" -> "power_read"
      [] reply = "off" -> "filter"
      [] reply = "on"  -> "filter"

\* let Ok(is_powered) = .. else {..}; if !is_powered {..}: the else-branch
\* taken, or the next step
AfterPowerRead(reply) ==
    CASE reply = "err" -> "power_read"
      [] reply = "off" -> "power_off"
      [] reply = "on"  -> "filter"

\* (mutant) the trust request is left out
AfterReads_NoTrust(p, connected, trusted) ==
    IF p /\ ~connected THEN "connect_profile" ELSE "load2"

\* if playing.load() && !connected { if !trusted {set_trusted} connect_profile }
\* else (second load)
AfterReads(p, connected, trusted) ==
    IF p /\ ~connected
    THEN IF ~trusted THEN "set_trusted" ELSE "connect_profile"
    ELSE "load2"

\* (mutant) an absent UUID set is taken for the empty one
AfterUuids_AbsentIsEmpty(kind) == IF kind = "err" THEN "return" ELSE "name"

\* let Ok(uuids) = device.uuids().await else { return };
\* let Some(uuid_list) = uuids else { return }
AfterUuids(kind) == IF kind = "some" THEN "name" ELSE "return"

\* (mutant) a failed read ends the handler, as the let-else of the reads
\* before the loop do
AfterReadError_Returns(pc) == "return"

\* let Ok(..) = device.is_connected() / is_trusted() else { continue }
AfterReadError(pc) == "continue"

\* (mutant) a failed request ends the handler
AfterRequest_ErrReturns(pc, ok) ==
    IF ~ok THEN "return"
    ELSE IF pc = "set_trusted" THEN "connect_profile" ELSE "sleep"

\* match device.set_trusted(true) / connect_profile(..) / disconnect() { Ok(_)
\* => println, Err(_) => println }: either arm falls through to what follows
AfterRequest(pc, ok) ==
    IF pc = "set_trusted" THEN "connect_profile" ELSE "sleep"

\* (mutant) the second branch does not load the signal again
AfterLoad2_IgnoresSignal(p, connected) ==
    IF connected THEN "disconnect" ELSE "sleep"

\* (mutant) the second branch tests the signal the wrong way round
AfterLoad2_Inverted(p, connected) ==
    IF p /\ connected THEN "disconnect" ELSE "sleep"

\* else if !playing.load() && connected { disconnect }
AfterLoad2(p, connected) ==
    IF ~p /\ connected THEN "disconnect" ELSE "sleep"

\* ---------------------------------------------------------------------- Init
InitWith(faults, follows) ==
    /\ mainPc = "session"
    /\ failedStep = "none"
    /\ backoff = 0
    /\ fails = 0
    /\ streamOpen = FALSE
    /\ is_powered = FALSE
    /\ dropped = FALSE
    /\ tasks = <<>>
    /\ devConnected = [a \in Addr |-> FALSE]
    /\ devTrusted = [a \in Addr |-> FALSE]
    /\ playing = InitialSignal
    /\ monPc = "start"
    /\ observed = "none"
    /\ faulty \in faults
    /\ follow \in follows

Init == InitWith(BOOLEAN, {FALSE})

\* a run in which no call to a device or to the media interface fails
InitFair == InitWith({FALSE}, {FALSE})

\* a run of that kind in which handler futures are marked
InitFollow == InitWith({FALSE}, {TRUE})

\* ------------------------------------------------------------ main: one epoch
Min(x, y) == IF x < y THEN x ELSE y

\* an else-branch of the epoch loop: sleep, println, continue
SetupFailed(step) ==
    /\ mainPc' = AfterFailure(step)
    /\ failedStep' = step
    /\ backoff' = BackoffSecs(step)
    /\ fails' = Min(fails + 1, MaxFails)
    /\ is_powered' = FALSE
    /\ UNCHANGED streamOpen

SetupPassed(next) ==
    /\ mainPc' = next
    /\ UNCHANGED <<failedStep, backoff, fails, streamOpen, is_powered>>

\* let Ok(session) = bluer::Session::new().await else {...}
SessionNew ==
    /\ mainPc = "session"
    /\ \E ok \in BOOLEAN :
          IF ok THEN SetupPassed("adapter") ELSE SetupFailed("session")
    /\ UNCHANGED <<dropped, tasks, devConst, devConnected, devTrusted, playing,
                   monPc, observed>>

\* let Ok(adapter) = session.default_adapter().await else {...}
DefaultAdapter ==
    /\ mainPc = "adapter"
    /\ \E ok \in BOOLEAN :
          IF ok THEN SetupPassed("is_powered") ELSE SetupFailed("adapter")
    /\ UNCHANGED <<dropped, tasks, devConst, devConnected, devTrusted, playing,
                   monPc, observed>>

\* let Ok(is_powered) = adapter.is_powered().await else {...};
\* if !is_powered {...}
IsPowered ==
    /\ mainPc = "is_powered"
    /\ \E reply \in {"err", "off", "on"} :
          LET next == AfterPowerRead(reply) IN
          IF next = "filter"
          THEN /\ mainPc' = next
               /\ is_powered' = (reply = "on")
               /\ UNCHANGED <<failedStep, backoff, fails, streamOpen>>
          ELSE SetupFailed(next)
    /\ UNCHANGED <<dropped, tasks, devConst, devConnected, devTrusted, playing,
                   monPc, observed>>

\* let Ok(_) = adapter.set_discovery_filter(filter.clone()).await else {...}
SetDiscoveryFilter ==
    /\ mainPc = "filter"
    /\ \E ok \in BOOLEAN :
          IF ok THEN SetupPassed("discover") ELSE SetupFailed("filter")
    /\ UNCHANGED <<dropped, tasks, devConst, devConnected, devTrusted, playing,
                   monPc, observed>>

\* let Ok(discover_events) = adapter.discover_devices().await else {...};
\* a new stream announces every device the adapter knows as DeviceAdded
DiscoverDevices ==
    /\ mainPc = "discover"
    /\ \E ok \in BOOLEAN :
          IF ok
          THEN /\ mainPc' = "routing"
               /\ streamOpen' = TRUE
               /\ fails' = 0
               /\ UNCHANGED <<failedStep, backoff, is_powered>>
          ELSE SetupFailed("discover")
    /\ UNCHANGED <<dropped, tasks, devConst, devConnected, devTrusted, playing,
                   monPc, observed>>

\* the sleep of an else-branch elapses; continue
BackoffDone ==
    /\ mainPc = "backoff"
    /\ mainPc' = "session"
    /\ failedStep' = "none"
    /\ backoff' = 0
    /\ UNCHANGED <<fails, streamOpen, is_powered, dropped, tasks, devConst, devConnected,
                   devTrusted, playing, monPc, observed>>

\* the adapter ends the discovery stream (reset, service restart, radio off)
StreamEnd ==
    /\ mainPc = "routing"
    /\ streamOpen
    /\ streamOpen' = FALSE
    /\ UNCHANGED <<mainPc, failedStep, backoff, fails, is_powered, dropped,
                   tasks, devConst, devConnected, devTrusted, playing, monPc, observed>>

\* for_each_concurrent(..).await completes once the stream has ended and
\* every handler future it owns has completed; the loop starts over
EpochEnd ==
    /\ mainPc = "routing"
    /\ ~streamOpen
    /\ Idle
    /\ mainPc' = "session"
    /\ is_powered' = FALSE
    /\ UNCHANGED <<failedStep, backoff, fails, streamOpen, dropped, tasks, devConst,
                   devConnected, devTrusted, playing, monPc, observed>>

\* ------------------------------------------------------- monitor_playback
\* let Ok(media_finder) = PlayerFinder::new() else { println; return }
PlayerFinderNew ==
    /\ monPc = "start"
    /\ \E ok \in Outcomes : monPc' = IF ok THEN "loop" ELSE "returned"
    /\ UNCHANGED <<mainVars, dropped, tasks, devConst, devConnected, devTrusted,
                   playing, observed>>

\* one iteration of the loop: sleep, find_active, get_playback_status, store
MonitorTick ==
    /\ monPc = "loop"
    /\ \E report \in Reports :
          /\ playing' = PlaybackStore(report)
          /\ observed' = report
    /\ UNCHANGED <<mainVars, dropped, tasks, devConst, devConnected, devTrusted,
                   monPc>>

\* ------------------------------------------------- discovery event router
\* for_each_concurrent takes an event from the stream and creates the future
\* handle_event(..) for it; the future is polled for the first time later, in
\* its turn among the futures that are ready
NewHandler(a, pc) == [NoLocals EXCEPT !.pc = pc, !.addr = a]

\* the positions of the marked futures
Followed == {t \in DOMAIN tasks : tasks[t].followed}

\* whether the future of a new event of a may be marked: only in a run that
\* marks, only while no other future carries the mark, and only an event of
\* B delivered while a future of the other device (a handler suspended in a
\* call, a polling loop) is in flight
Marks(a) ==
    IF /\ follow
       /\ Followed = {}
       /\ a = "B"
       /\ \E u \in DOMAIN tasks : tasks[u].addr # a
    THEN BOOLEAN
    ELSE {FALSE}

\* the stream yields AdapterEvent::DeviceAdded(address): the future of
\* handle_event is created, not yet polled
DeviceAdded(a) ==
    /\ mainPc = "routing"
    /\ streamOpen
    /\ HasRoom
    /\ \E mark \in Marks(a) :
          tasks' = Append(tasks, [NewHandler(a, "added")
                                     EXCEPT !.followed = mark])
    /\ dropped' = FALSE
    /\ UNCHANGED <<mainVars, devConst, devConnected, devTrusted, playing,
                   monPc, observed>>

\* the stream yields AdapterEvent::DeviceRemoved(address): the future of
\* handle_event is created, not yet polled
DeviceRemoved(a) ==
    /\ mainPc = "routing"
    /\ streamOpen
    /\ HasRoom
    /\ \E mark \in Marks(a) :
          tasks' = Append(tasks, [NewHandler(a, "removed")
                                     EXCEPT !.followed = mark])
    /\ dropped' = FALSE
    /\ UNCHANGED <<mainVars, devConst, devConnected, devTrusted, playing,
                   monPc, observed>>

\* first poll of handle_device_added: let Ok(device) = adapter.device(address)
\* else { return }; device.uuids() is called
AddedFirstPoll(t) ==
    /\ tasks[t].pc = "added"
    /\ \E ok \in Outcomes :
          IF ok
          THEN tasks' = [tasks EXCEPT ![t].pc = "uuids"] /\ UNCHANGED dropped
          ELSE tasks' = RemoveAt(tasks, t) /\ dropped' = (Len(tasks) = 1)
    /\ UNCHANGED <<mainVars, devConst, devConnected, devTrusted,
                   playing, monPc, observed>>

\* first poll of handle_device_removed: let Ok(device) = adapter.device(address)
\* else { return }; device.name() is called
RemovedFirstPoll(t) ==
    /\ tasks[t].pc = "removed"
    /\ \E ok \in Outcomes :
          IF ok
          THEN tasks' = [tasks EXCEPT ![t].pc = "rm_name"]
          ELSE tasks' = RemoveAt(tasks, t)
    /\ UNCHANGED <<mainVars, dropped, devConst, devConnected, devTrusted,
                   playing, monPc, observed>>

\* handle_device_removed: device.name() replies, println, return
RemovedNameReply(t) ==
    /\ tasks[t].pc = "rm_name"
    /\ tasks' = RemoveAt(tasks, t)
    /\ UNCHANGED <<mainVars, dropped, devConst, devConnected, devTrusted,
                   playing, monPc, observed>>

\* handle_device_added: device.uuids() replies; Err and Ok(None) return,
\* Ok(Some(uuid_list)) computes has_asha and goes on to device.name().await
UuidsReply(t) ==
    /\ tasks[t].pc = "uuids"
    /\ \E reply \in UuidReplies :
          IF AfterUuids(reply.kind) = "name"
          THEN /\ tasks' = [tasks EXCEPT
                            ![t].pc = "name",
                            ![t].uuids = reply.kind,
                            ![t].has_asha = ServiceMatch(reply.uuid_list)]
               /\ UNCHANGED dropped
          ELSE tasks' = RemoveAt(tasks, t) /\ dropped' = (Len(tasks) = 1)
    /\ UNCHANGED <<mainVars, devConst, devConnected, devTrusted,
                   playing, monPc, observed>>

\* handle_device_added: device.name() replies; the name test either returns
\* or enters the polling loop at its sleep (has_asha is not read again)
NameReply(t) ==
    /\ tasks[t].pc = "name"
    /\ \E ok \in Outcomes :
          LET device_name == NameOrUnknown(ok, NameOf(tasks[t].addr)) IN
          IF EntersLoop(tasks[t].has_asha, device_name)
          THEN tasks' = [tasks EXCEPT ![t] = NewHandler(tasks[t].addr, "sleep")]
          ELSE tasks' = RemoveAt(tasks, t)
    /\ UNCHANGED <<mainVars, dropped, devConst, devConnected, devTrusted,
                   playing, monPc, observed>>

\* ------------------------------------------- the polling loop (supervisor)
\* the loop body is over: back to the sleep, the locals of the tick are gone
TickOver(t) ==
    NewHandler(tasks[t].addr, "sleep")

\* continue after a failed read: back to the sleep, nothing done in this tick
SkipTick(t) ==
    [NewHandler(tasks[t].addr, "sleep") EXCEPT !.skipped = TRUE]

\* the list of futures after the read at position t failed
ReadFailed(t) ==
    IF AfterReadError(tasks[t].pc) = "continue"
    THEN [tasks EXCEPT ![t] = SkipTick(t)]
    ELSE RemoveAt(tasks, t)

\* the list of futures after the request at position t was answered: failed
\* tells which arm of the match ran (TRUE for Err), until the next request is
\* answered or the sleep elapses
Answered(t, ok) ==
    LET next == AfterRequest(tasks[t].pc, ok) IN
    CASE next = "connect_profile" ->
            [tasks EXCEPT ![t].pc = next, ![t].issued = Append(@, next),
                          ![t].failed = ~ok]
      [] next = "sleep"  ->
            [tasks EXCEPT ![t] = [TickOver(t) EXCEPT !.failed = ~ok]]
      [] next = "return" -> RemoveAt(tasks, t)

\* requests a position stands for: being at it means the call was issued
RequestAt(pc) ==
    IF pc \in {"set_trusted", "connect_profile", "disconnect"}
    THEN <<pc>> ELSE <<>>

\* tokio::time::sleep(100 ms) elapses; device.is_connected() is called
SleepDone(t) ==
    /\ tasks[t].pc = "sleep"
    /\ tasks' = [tasks EXCEPT ![t].pc = "is_connected", ![t].skipped = FALSE,
                              ![t].failed = FALSE]
    /\ UNCHANGED <<mainVars, dropped, devConst, devConnected, devTrusted,
                   playing, monPc, observed>>

\* let Ok(connected) = device.is_connected().await else { continue }
IsConnectedReply(t) ==
    /\ tasks[t].pc = "is_connected"
    /\ \E ok \in Outcomes :
          IF ok
          THEN tasks' = [tasks EXCEPT
                            ![t].pc = "is_trusted",
                            ![t].connected = devConnected[tasks[t].addr]]
          ELSE tasks' = ReadFailed(t)
    /\ UNCHANGED <<mainVars, dropped, devConst, devConnected, devTrusted,
                   playing, monPc, observed>>

\* let Ok(trusted) = device.is_trusted().await else { continue };
\* if playing.load(Relaxed) && !connected {...}: first load and branch
\* (trusted is read on the connect branch only and is not kept on the other)
IsTrustedReply(t) ==
    /\ tasks[t].pc = "is_trusted"
    /\ \E ok \in Outcomes :
          IF ok
          THEN LET trusted == devTrusted[tasks[t].addr]
                   next == AfterReads(playing, tasks[t].connected, trusted)
               IN  tasks' = [tasks EXCEPT
                                ![t].pc = next,
                                ![t].trusted = (next # "load2") /\ trusted,
                                ![t].p1 = playing,
                                ![t].issued = RequestAt(next)]
          ELSE tasks' = ReadFailed(t)
    /\ UNCHANGED <<mainVars, dropped, devConst, devConnected, devTrusted,
                   playing, monPc, observed>>

\* else if !playing.load(Relaxed) && connected {...}: second load and branch
Load2(t) ==
    /\ tasks[t].pc = "load2"
    /\ LET next == AfterLoad2(playing, tasks[t].connected) IN
          IF next = "sleep"
          THEN tasks' = [tasks EXCEPT ![t] = TickOver(t)]
          ELSE tasks' = [tasks EXCEPT
                            ![t].pc = next,
                            ![t].p2 = playing,
                            ![t].issued = RequestAt(next)]
    /\ UNCHANGED <<mainVars, dropped, devConst, devConnected, devTrusted,
                   playing, monPc, observed>>

\* device.set_trusted(true) replies; either way connect_profile is called
SetTrustedReply(t) ==
    /\ tasks[t].pc = "set_trusted"
    /\ \E ok \in Outcomes :
          /\ devTrusted' = [devTrusted EXCEPT
                               ![tasks[t].addr] = IF ok THEN TRUE ELSE @]
          /\ tasks' = Answered(t, ok)
    /\ UNCHANGED <<mainVars, dropped, devConst, devConnected, playing, monPc, observed>>

\* device.connect_profile(&asha_profile) replies
ConnectProfileReply(t) ==
    /\ tasks[t].pc = "connect_profile"
    /\ \E ok \in Outcomes :
          /\ devConnected' = [devConnected EXCEPT
                                 ![tasks[t].addr] = IF ok THEN TRUE ELSE @]
          /\ tasks' = Answered(t, ok)
    /\ UNCHANGED <<mainVars, dropped, devConst, devTrusted, playing, monPc, observed>>

\* device.disconnect() replies
DisconnectReply(t) ==
    /\ tasks[t].pc = "disconnect"
    /\ \E ok \in Outcomes :
          /\ devConnected' = [devConnected EXCEPT
                                 ![tasks[t].addr] = IF ok THEN FALSE ELSE @]
          /\ tasks' = Answered(t, ok)
    /\ UNCHANGED <<mainVars, dropped, devConst, devTrusted, playing, monPc, observed>>

\* the radio link of a connected device drops
LinkLost(a) ==
    /\ devConnected[a]
    /\ devConnected' = [devConnected EXCEPT ![a] = FALSE]
    /\ UNCHANGED <<mainVars, dropped, tasks, devConst, devTrusted, playing,
                   monPc, observed>>

\* -------------------------------------------------------------- specification
MainStep ==
    \/ SessionNew
    \/ DefaultAdapter
    \/ IsPowered
    \/ SetDiscoveryFilter
    \/ DiscoverDevices
    \/ BackoffDone
    \/ EpochEnd

\* (mutant) the handlers run one at a time, in the order of their events
Polled_HeadOnly(t) == t \in DOMAIN tasks /\ t = 1

\* for_each_concurrent(usize::MAX, ..) polls every future it owns
Polled(t) == t \in DOMAIN tasks

TaskStep(t) ==
    /\ Polled(t)
    /\ \/ AddedFirstPoll(t)
       \/ RemovedFirstPoll(t)
       \/ RemovedNameReply(t)
       \/ UuidsReply(t)
       \/ NameReply(t)
       \/ SleepDone(t)
       \/ IsConnectedReply(t)
       \/ IsTrustedReply(t)
       \/ Load2(t)
       \/ SetTrustedReply(t)
       \/ ConnectProfileReply(t)
       \/ DisconnectReply(t)

Next ==
    \/ MainStep
    \/ StreamEnd
    \/ PlayerFinderNew
    \/ MonitorTick
    \/ \E a \in Addr : DeviceAdded(a)
    \/ \E a \in Addr : DeviceRemoved(a)
    \/ \E t \in Slots : TaskStep(t)
    \/ \E a \in Addr : LinkLost(a)

Spec == Init /\ [][Next]_vars

\* the tokio runtime polls every woken future (a future's position in the
\* list only ever decreases, so fairness per position is fairness per future)
\* and the OS runs the start of the playback thread. Nothing is assumed of
\* what the media player reports, of the adapter's events, of link losses.
FairSpec ==
    /\ InitFair
    /\ [][Next]_vars
    /\ WF_vars(MainStep)
    /\ WF_vars(PlayerFinderNew)
    /\ \A t \in Slots : WF_vars(TaskStep(t))

\* the same runs and the same scheduling, with handler futures marked
FollowSpec ==
    /\ InitFollow
    /\ [][Next]_vars
    /\ WF_vars(MainStep)
    /\ WF_vars(PlayerFinderNew)
    /\ \A t \in Slots : WF_vars(TaskStep(t))

TypeOK ==
    /\ mainPc \in {"session", "adapter", "is_powered", "filter", "discover",
                   "routing", "backoff", "exit"}
    /\ failedStep \in SetupSteps \cup {"none"}
    /\ backoff \in {0, ShortBackoff, LongBackoff}
    /\ fails \in 0..MaxFails
    /\ streamOpen \in BOOLEAN
    /\ is_powered \in BOOLEAN
    /\ dropped \in BOOLEAN
    /\ dropped => tasks = <<>>
    /\ Len(tasks) <= MaxTasks
    /\ Cardinality(Followed) <= 1
    /\ \A t \in Followed : tasks[t].pc \in HandlerPcs
    /\ \A t \in DOMAIN tasks : tasks[t].pc \in LoopPcs \cup HandlerPcs
    /\ playing \in BOOLEAN
    /\ monPc \in {"start", "loop", "returned"}
    /\ observed \in PlayerReports \cup {"none"}

\* ------------------------------------------------------ steps, as seen in
\* a pair of states (a step of one handler never changes the length of the
\* list unless that handler completes)
\* the handler at position t passes the name test and enters the polling loop
EntersLoopStep(t) ==
    /\ tasks[t].pc = "name"
    /\ Len(tasks') = Len(tasks)
    /\ tasks'[t].pc = "sleep"

\* the handler at position t gets its name reply: it enters the loop or returns
NameReplyStep(t) ==
    /\ tasks[t].pc = "name"
    /\ \/ EntersLoopStep(t)
       \/ tasks' = RemoveAt(tasks, t)

\* the polling loop at position t completes a tick whose two reads succeeded
TickEnds(t) ==
    /\ tasks[t].pc \in {"load2", "connect_profile", "disconnect"}
    /\ Len(tasks') = Len(tasks)
    /\ tasks'[t].pc = "sleep"

\* the values the loads of the tick ending at position t returned
SignalSeen(t) ==
    CASE tasks[t].pc = "load2"           -> {tasks[t].p1, playing}
      [] tasks[t].pc = "connect_profile" -> {tasks[t].p1}
      [] tasks[t].pc = "disconnect"      -> {tasks[t].p1, tasks[t].p2}

\* the handler of a DeviceRemoved at position u returns: the event has been
\* handled
RemovalHandled(u) ==
    /\ tasks[u].pc \in {"removed", "rm_name"}
    /\ tasks' = RemoveAt(tasks, u)

\* the transition table of the supervisor (spec 4.3): the requests of a tick
TransitionTable(connected, trusted, signal) ==
    IF ~connected /\ signal
    THEN IF trusted THEN <<"connect_profile">>
                    ELSE <<"set_trusted", "connect_profile">>
    ELSE IF connected /\ ~signal THEN <<"disconnect">> ELSE <<>>

\* ---------------------------------------------------------------- claims
\* C1: a handler whose device does not advertise 0xFDF0 never enters the
\* polling loop, so no supervisor (and no request) ever exists for it.
C1_NoSupervisorWithoutServiceMatch ==
    [][\A t \in DOMAIN tasks : EntersLoopStep(t) => tasks[t].has_asha]_vars

\* C2: when the name reply arrives for a DeviceAdded handler that read a UUID
\* list containing 0xFDF0, the handler starts the supervisor whatever the name
\* is, unless a supervisor is already active for that address.
C2_ServiceMatchStartsSupervisor ==
    [][\A t \in DOMAIN tasks :
          (NameReplyStep(t) /\ tasks[t].has_asha
              /\ Supervisors(tasks[t].addr) = {})
          => EntersLoopStep(t)]_vars

\* C3: at most one supervisor polling loop is active per device address.
C3_AtMostOneSupervisor ==
    \A a \in Addr : Cardinality(Supervisors(a)) <= 1

\* C4: when the DeviceRemoved event of a device has been handled, the
\* supervisor that an earlier DeviceAdded of that device started is cancelled:
\* no polling loop of the device that is older than the removal is left to
\* start a tick or issue a request (the futures are listed in event order).
C4_RemovedCancelsSupervisor ==
    [][\A u \in DOMAIN tasks :
          RemovalHandled(u)
          => \A t \in 1..(u - 1) :
                ~(tasks'[t].addr = tasks[u].addr /\ tasks'[t].pc \in LoopPcs)]_vars

\* C5: a tick whose two reads succeeded and whose loads of the signal all
\* returned s issues exactly the requests of the transition table for the
\* observed connected and trusted flags and s.
C5_TickFollowsTable ==
    [][\A t \in DOMAIN tasks : \A s \in BOOLEAN :
          (TickEnds(t) /\ SignalSeen(t) = {s})
          => tasks[t].issued
                = TransitionTable(tasks[t].connected, tasks[t].trusted, s)]_vars

\* C5 witness: a tick that observed the device disconnected and untrusted under
\* a true signal has issued set_trusted and then connect_profile.
C5_Witness ==
    \E t \in DOMAIN tasks :
        /\ tasks[t].pc = "connect_profile"
        /\ tasks[t].p1 /\ ~tasks[t].connected /\ ~tasks[t].trusted
        /\ tasks[t].issued = <<"set_trusted", "connect_profile">>

\* C6: (under fairness, no per-device call failing) a device whose UUID list
\* contains 0xFDF0 and that DeviceAdded announced is eventually connected,
\* unless the signal stops being true.
C6_ServiceMatchEventuallyConnected ==
    \A a \in Addr :
        (\E t \in DOMAIN tasks :
            tasks[t].addr = a /\ tasks[t].pc = "name" /\ tasks[t].has_asha)
        ~> (devConnected[a] \/ ~playing)

\* C7: (under fairness, no per-device call failing) a supervised device that
\* is connected while the signal is false is eventually disconnected, unless
\* the signal becomes true again.
C7_SignalFalseDisconnects ==
    \A a \in Addr :
        (Supervisors(a) # {} /\ devConnected[a] /\ ~playing)
        ~> (~devConnected[a] \/ playing)

\* C7 witness: a supervisor has issued disconnect for a connected device
\* after loading a false signal.
C7_Witness ==
    \E t \in DOMAIN tasks :
        /\ tasks[t].pc = "disconnect"
        /\ ~tasks[t].p2
        /\ devConnected[tasks[t].addr]
        /\ ~playing

\* C8: (under fairness) once the discovery stream of the epoch has ended,
\* main eventually returns to session establishment.
C8_StreamEndStartsNewEpoch ==
    (mainPc = "routing" /\ ~streamOpen) ~> (mainPc = "session")

\* C9: a failed setup step never ends the process: main goes to the sleep of
\* its else-branch, from there (under fairness, eventually) to session open,
\* and never exits.
C9_SetupFailureRetries ==
    /\ [][/\ (failedStep = "none" /\ failedStep' # "none") => mainPc' = "backoff"
          /\ mainPc = "backoff" => mainPc' \in {"backoff", "session"}
          /\ mainPc' # "exit"]_vars
    /\ (mainPc = "backoff") ~> (mainPc = "session")

\* C9 witness: after MaxFails consecutive failed epochs main is again at
\* session open.
C9_Witness == fails = MaxFails /\ mainPc = "session"

\* the backoff class the claim gives each setup step
ClaimedBackoff(step) ==
    IF step \in {"session", "adapter"} THEN LongBackoff ELSE ShortBackoff

\* C10, as claimed: session-open and default-adapter failures sleep the long
\* backoff; power-read, powered-off and filter failures the short one.
C10_BackoffByClass ==
    (mainPc = "backoff" /\ failedStep # "discover")
    => backoff = ClaimedBackoff(failedStep)

\* C10, amended: only the session-open failure sleeps the long backoff; the
\* default-adapter, power-read, powered-off and filter failures sleep the
\* short one.
C10_BackoffByClassAmended ==
    (mainPc = "backoff" /\ failedStep # "discover")
    => backoff = IF failedStep = "session" THEN LongBackoff ELSE ShortBackoff

\* C10 witness: main sleeps the short backoff after default_adapter failed.
C10_Witness ==
    mainPc = "backoff" /\ failedStep = "adapter" /\ backoff = ShortBackoff

\* the order of the setup steps of an epoch (spec 4.2), as the positions main
\* may move between: forward on success, to the sleep of an else-branch on
\* failure, from the sleep and from the end of routing back to session open
SetupOrder ==
    {<<"session", "adapter">>, <<"adapter", "is_powered">>,
     <<"is_powered", "filter">>, <<"filter", "discover">>,
     <<"discover", "routing">>, <<"routing", "session">>,
     <<"backoff", "session">>}
        \cup {<<pc, "backoff">> : pc \in {"session", "adapter", "is_powered",
                                          "filter", "discover"}}

\* C11: main moves through the setup steps in the fixed order session open,
\* default adapter, power read, discovery filter, discovery start; the filter
\* is set, the discovery started, the stream open and any handler running
\* only when the power read of this epoch returned true.
C11_SetupOrder ==
    /\ [][mainPc' # mainPc => <<mainPc, mainPc'>> \in SetupOrder]_vars
    /\ [](mainPc \in {"filter", "discover", "routing"} => is_powered)
    /\ []((streamOpen \/ tasks # <<>>) => (mainPc = "routing" /\ is_powered))

\* C11 witness: a discovery event has been routed in an epoch whose power read
\* returned true.
C11_Witness ==
    mainPc = "routing" /\ streamOpen /\ is_powered /\ tasks # <<>>

\* a step of the monitor_playback loop: nothing of main, of the handlers or of
\* the devices changes
MonitorTickStep ==
    /\ monPc = "loop"
    /\ monPc' = "loop"
    /\ UNCHANGED <<mainVars, dropped, tasks, devConnected, devTrusted, faulty>>

\* C12: after every tick of monitor_playback the signal is true exactly when
\* the tick found a player whose status it could read and that status was
\* Playing; the signal changes in steps of monitor_playback only.
C12_SignalIsPlayingStatus ==
    /\ [](observed # "none" => (playing <=> observed = "Playing"))
    /\ [][playing' # playing => MonitorTickStep]_vars

\* C12 witness: a tick that found a paused player has set the signal false
\* while a polling loop is still acting on the true signal it loaded before.
C12_Witness ==
    /\ observed = "Paused"
    /\ ~playing
    /\ \E t \in DOMAIN tasks : tasks[t].pc = "connect_profile" /\ tasks[t].p1

\* C13: the monitor_playback loop never terminates, whatever the media
\* interface returns, the failure of PlayerFinder::new() included.
C13_PlaybackLoopNeverTerminates == monPc # "returned"

\* the handler at position t, which is at one of the positions pcs, takes a
\* step: it moves on or it completes
StepAt(t, pcs) ==
    /\ tasks[t].pc \in pcs
    /\ \/ tasks' = RemoveAt(tasks, t)
       \/ Len(tasks') = Len(tasks) /\ tasks'[t] # tasks[t]

\* the is_connected or is_trusted read of the polling loop at position t
\* fails: the loop does not go on to the next position of the tick
ReadFailedStep(t) ==
    /\ StepAt(t, {"is_connected", "is_trusted"})
    /\ ~(/\ Len(tasks') = Len(tasks)
         /\ tasks'[t].pc \in {"is_trusted", "load2", "set_trusted",
                               "connect_profile"})

\* the request of the polling loop at position t is answered with Err: the
\* Err arm of its match runs, or the handler is gone
RequestFailedStep(t) ==
    /\ StepAt(t, {"set_trusted", "connect_profile", "disconnect"})
    /\ \/ tasks' = RemoveAt(tasks, t)
       \/ Len(tasks') = Len(tasks) /\ tasks'[t].failed

\* C14: a tick whose is_connected or is_trusted read fails issues no request
\* and changes nothing at the device; the polling loop stays alive and is at
\* the sleep that starts its next tick.
C14_ReadFailureSkipsTick ==
    [][\A t \in DOMAIN tasks :
          ReadFailedStep(t)
          => /\ Len(tasks') = Len(tasks)
             /\ tasks'[t].pc = "sleep"
             /\ tasks'[t].addr = tasks[t].addr
             /\ tasks[t].issued = <<>> /\ tasks'[t].issued = <<>>
             /\ UNCHANGED <<devConnected, devTrusted>>]_vars

\* C14 witness: a tick was skipped at a failed read although the device was
\* disconnected while the signal was true.
C14_Witness ==
    \E t \in DOMAIN tasks :
        /\ tasks[t].pc = "sleep"
        /\ tasks[t].skipped
        /\ playing
        /\ ~devConnected[tasks[t].addr]

\* C15: a set_trusted, connect_profile or disconnect request that fails ends
\* neither the polling loop nor the process and changes nothing at the
\* device: after a failed set_trusted the loop still issues connect_profile,
\* after a failed connect_profile or disconnect it is at the sleep of its next
\* tick with none of the locals of the tick kept, as a loop that never failed.
C15_RequestFailureRetries ==
    [][/\ mainPc' # "exit"
       /\ \A t \in DOMAIN tasks :
             RequestFailedStep(t)
             => /\ Len(tasks') = Len(tasks)
                /\ UNCHANGED <<devConnected, devTrusted>>
                /\ IF tasks[t].pc = "set_trusted"
                   THEN /\ tasks'[t].pc = "connect_profile"
                        /\ tasks'[t].issued = <<"set_trusted", "connect_profile">>
                   ELSE [tasks'[t] EXCEPT !.failed = FALSE]
                           = NewHandler(tasks[t].addr, "sleep")]_vars

\* C15 witness: set_trusted was issued and answered with Err (the device is
\* still not trusted) and the loop has gone on to issue connect_profile.
C15_Witness ==
    \E t \in DOMAIN tasks :
        /\ tasks[t].pc = "connect_profile"
        /\ tasks[t].failed
        /\ tasks[t].issued = <<"set_trusted", "connect_profile">>
        /\ ~devTrusted[tasks[t].addr]
        /\ ~devConnected[tasks[t].addr]

\* C16: the handling of one device's event never blocks that of another
\* device's: under the runtime's scheduling every event the stream has
\* delivered is eventually handled (its handler returns or, for a DeviceAdded
\* that passes the name test, reaches the polling loop), whatever the other
\* futures are doing meanwhile: a polling loop of another device that never
\* ends, a handler of another device suspended in an external call. The
\* mark tells the handler of that event from the handlers of later events.
C16_HandlersDoNotBlock == (Followed # {}) ~> (Followed = {})

\* C16 witness: while a polling loop for A is in the middle of a tick, the
\* marked handler of a later event of B, behind it in the list, has been
\* polled and is suspended in its own external call.
C16_Witness ==
    \E t \in DOMAIN tasks : \E u \in Followed :
        /\ t < u
        /\ tasks[t].addr = "A" /\ tasks[t].pc = "is_trusted"
        /\ tasks[u].addr = "B" /\ tasks[u].pc \in {"name", "rm_name"}

\* C17: at no time are two ticks for the same device address in progress.
C17_TicksNeverOverlap ==
    \A a \in Addr :
        Cardinality({t \in Supervisors(a) : tasks[t].pc # "sleep"}) <= 1

\* the stream delivers DeviceAdded(a): a new future is created for a and it
\* is a handle_device_added
Announced(a) ==
    /\ Len(tasks') = Len(tasks) + 1
    /\ tasks'[Len(tasks')].addr = a
    /\ tasks'[Len(tasks')].pc \notin {"removed", "rm_name"}

\* the handler of a DeviceAdded at position t does not get past the device
\* resolution or the UUID read
UuidsDropStep(t) ==
    /\ StepAt(t, {"added", "uuids"})
    /\ ~(Len(tasks') = Len(tasks) /\ tasks'[t].pc \in {"uuids", "name"})

\* C18: a DeviceAdded whose device cannot be resolved, whose UUID read fails
\* or whose UUID set is absent is dropped: its handler completes without
\* reaching the name read or the polling loop and without any change at the
\* device; every DeviceAdded, a repeated one too, gets a new handler that
\* starts at the device resolution with no locals set.
C18_UnreadableDeviceDropped ==
    /\ [](\A t \in DOMAIN tasks : tasks[t].pc = "name" => tasks[t].uuids = "some")
    /\ [][\A t \in DOMAIN tasks :
             UuidsDropStep(t)
             => /\ tasks' = RemoveAt(tasks, t)
                /\ UNCHANGED <<devConnected, devTrusted>>]_vars
    /\ [][\A a \in Addr :
             Announced(a)
             => /\ tasks' = Append(tasks, NewHandler(a, "added"))
                /\ UNCHANGED <<devConnected, devTrusted>>]_vars

\* C18 witness: a DeviceAdded has been dropped at the device resolution or at
\* the UUID read, the stream is still open and no handler and no polling loop
\* is left.
C18_Witness ==
    /\ dropped
    /\ mainPc = "routing" /\ streamOpen
    /\ tasks = <<>>

\* the requests issued in the tick of the record r, as a set
Requested(r) == {r.issued[i] : i \in DOMAIN r.issued}

\* C19: a tick loads the signal twice and monitor_playback may store between
\* the loads; still every tick issues at most one of connect_profile and
\* disconnect, and what it issues is the entry of the transition table for
\* the connected (and trusted) flag it read and one of the values it loaded.
C19_TwoLoadsOneAction ==
    [][\A t \in DOMAIN tasks :
          TickEnds(t)
          => /\ ~({"connect_profile", "disconnect"} \subseteq Requested(tasks[t]))
             /\ \E s \in SignalSeen(t) :
                   tasks[t].issued
                      = TransitionTable(tasks[t].connected, tasks[t].trusted, s)]_vars

\* C19 witness: the first load of a tick returned true, the signal was stored
\* false before the second load, and the tick has issued disconnect.
C19_Witness ==
    \E t \in DOMAIN tasks :
        /\ tasks[t].pc = "disconnect"
        /\ tasks[t].connected
        /\ tasks[t].p1 /\ ~tasks[t].p2
        /\ tasks[t].issued = <<"disconnect">>

\* the polling loop at position t takes the connect branch: it issues
\* set_trusted or connect_profile
ConnectBranchStep(t) ==
    /\ tasks[t].pc = "is_trusted"
    /\ Len(tasks') = Len(tasks)
    /\ tasks'[t].pc \in {"set_trusted", "connect_profile"}

\* a set_trusted or connect_profile request has been issued and not answered
TrustOrConnectIssued ==
    \E t \in DOMAIN tasks : tasks[t].pc \in {"set_trusted", "connect_profile"}

\* C20: the signal is false from the start of the process until a tick of
\* monitor_playback observes Playing (it is false before the first tick and
\* turns true only in a tick that observed Playing), and set_trusted and
\* connect_profile are issued only on loading a true signal; so in a run in
\* which no tick ever observes Playing no such request is ever issued.
C20_NoConnectBeforePlaying ==
    /\ [](observed = "none" => ~playing)
    /\ [][(~playing /\ playing')
             => (MonitorTickStep /\ observed' = "Playing")]_vars
    /\ [][\A t \in DOMAIN tasks : ConnectBranchStep(t) => playing]_vars
    /\ ([](observed # "Playing") => [](~TrustOrConnectIssued))

\* C20 witness: a polling loop has issued its first request, set_trusted,
\* while the last tick of monitor_playback observed Playing.
C20_Witness ==
    /\ observed = "Playing"
    /\ playing
    /\ \E t \in DOMAIN tasks :
          tasks[t].pc = "set_trusted" /\ tasks[t].p1

====
